---- MODULE Spec2Model ----
(***************************************************************************)
(* TwitchBot (src/twitch_bot.py): the connection lifecycle of the bot.     *)
(* The supervisor thread runs run_with_reconnect(); a second thread may    *)
(* call stop() at any time; the user may interrupt the supervisor thread   *)
(* (KeyboardInterrupt).  Every blocking call of the supervisor is one      *)
(* step, so that stop() interleaves with it at every statement that reads  *)
(* or writes shared state (running, connected, socket).                    *)
(***************************************************************************)
EXTENDS Integers, Sequences, FiniteSets, TLC

(* ------------------------------------------------------------------ *)
(* Bounds of the model                                                  *)
(* ------------------------------------------------------------------ *)
\* backoff waits kept in the log `waits`
MaxWaits == 8
\* greetings counted per room (the count saturates here)
MaxGreetings == 2
\* complete lines one recv() may deliver
MaxChunk == 2
\* calls of stop() from outside the supervisor thread
MaxStops == 1
\* JOIN events counted for the announce room (the count saturates here)
MaxJoins == 2
\* length of the arbitrary character streams fed to the line framer
MaxStream == 3
\* calls of send_message made by the unit harness
MaxCalls == 2
\* length of the arbitrary lines handed to parse_message
MaxLine == 3

(* ------------------------------------------------------------------ *)
(* Program constants                                                    *)
(* ------------------------------------------------------------------ *)
self_reconnect_delay == 5
max_reconnect_delay == 300
ping_interval == 60
greeting_delay == 2

None == "None"
\* no line on the wire
NoLine == <<>>
oauth_token == "oauth:token"
bot_username == "bot"

Min(a, b) == IF a < b THEN a ELSE b

Range(s) == {s[i] : i \in 1..Len(s)}

\* str.lower() on the names the model uses
Lower(s) ==
  CASE s = "Foo" -> "foo"
    [] s = "FOO" -> "foo"
    [] s = "#Foo" -> "#foo"
    [] OTHER -> s

\* str.lstrip('#') on the JOIN parameters the model uses
LStripHash(s) ==
  CASE s = "#foo" -> "foo"
    [] s = "#Foo" -> "Foo"
    [] s = "##foo" -> "foo"
    [] s = "#bar" -> "bar"
    [] OTHER -> s

\* the room lists and announce rooms given to the constructor
ChannelArgs == {<<"Foo", "bar">>, <<"foo", "FOO">>}
AnnounceArgs == {None, "Foo"}

Rooms == {"foo", "bar"}

VARIABLES
  channels,          \* self.channels
  announce_channel,  \* self.announce_channel
  socket,            \* self.socket: None, "open" or "closed"
  connected,         \* self.connected
  running,           \* self.running
  hi_sent,           \* self.hi_sent
  reconnect_delay,   \* the local reconnect_delay of run_with_reconnect
  buffer,            \* listen(): the complete lines not yet dispatched
  ping_age,          \* listen(): time.time() - last_ping
  joined_channel,    \* handle_message(): the local of the JOIN branch
  pc,                \* the statement the supervisor thread is at
  hs,                \* connect(): the handshake line to send next
  interrupted,       \* KeyboardInterrupt was caught at line 234 (break)
  stop_pc,           \* the statement the thread calling stop() is at
  sent,              \* log: the lines connect() sent on the supervisor's socket
  out,               \* log: the line the latest step of listen() sent, or NoLine
  greetings,         \* log: room -> number of greeting lines sent to it
  joins,             \* log: number of JOIN events dispatched for the announce room
  waits,             \* log: backoff waits since start or the last successful connect
  ever_connected,    \* log: some connect() returned True
  grown,             \* log: the last successful connect reset a delay above the initial one
  stops,             \* log: the number of stop() calls so far
  saw_stop,          \* log: the supervisor read running = False
  failed,            \* log: a transport error happened since the last connect attempt
  wire,              \* unit harness: the characters the server sent, not yet read
  raw,               \* unit harness: listen()'s local `buffer`, as characters
  lines,             \* unit harness: the lines listen() handed to handle_message
  call,              \* unit harness: the arguments of the call under test
  ret,               \* unit harness: the dicts parse_message returned (none or one)
  logged             \* unit harness: what the PRIVMSG branch passed to logger.debug

bot == <<channels, announce_channel, socket, connected, running, hi_sent,
          reconnect_delay, buffer, ping_age, joined_channel, pc, hs, interrupted,
          stop_pc, sent, out, greetings, joins, waits, ever_connected, grown,
          stops, saw_stop, failed>>

harness == <<wire, raw, lines, call, ret, logged>>

vars == <<bot, harness>>

config == <<channels, announce_channel>>
session == <<buffer, ping_age, joined_channel>>
logs == <<sent, out, greetings, joins, waits, ever_connected, grown>>

\* TwitchBot.__init__, with the arguments main() accepts (line 278)
Constructed ==
  /\ \E chs \in ChannelArgs, ann \in AnnounceArgs :
       /\ ann # None => Lower(ann) \in {Lower(chs[i]) : i \in 1..Len(chs)}
       /\ channels = [i \in 1..Len(chs) |-> Lower(chs[i])]
       /\ announce_channel = IF ann # None THEN Lower(ann) ELSE None
  /\ socket = None
  /\ connected = FALSE
  /\ running = FALSE
  /\ hi_sent = {}
  /\ reconnect_delay = self_reconnect_delay
  /\ buffer = <<>>
  /\ ping_age = 0
  /\ joined_channel = None
  /\ pc = "start"
  /\ hs = 0
  /\ interrupted = FALSE
  /\ stop_pc = "idle"
  /\ sent = <<>>
  /\ out = NoLine
  /\ greetings = [r \in Rooms |-> 0]
  /\ joins = 0
  /\ waits = <<>>
  /\ ever_connected = FALSE
  /\ grown = FALSE
  /\ stops = 0
  /\ saw_stop = FALSE
  /\ failed = FALSE

\* the bot as constructed; no unit harness is in use
Init ==
  /\ Constructed
  /\ wire = <<>>
  /\ raw = <<>>
  /\ lines = <<>>
  /\ call = None
  /\ ret = <<>>
  /\ logged = <<>>

\* stop() was called
stop_called == stops > 0

\* socket.send(): raises on a closed socket, may raise on an open one
SendOutcomes == IF socket = "open" THEN {TRUE, FALSE} ELSE {FALSE}

(* ------------------------------------------------------------------ *)
(* run_with_reconnect                                                   *)
(* ------------------------------------------------------------------ *)
\* lines 221-222
Start ==
  /\ pc = "start"
  /\ running' = TRUE
  /\ reconnect_delay' = self_reconnect_delay
  /\ pc' = "loop"
  /\ UNCHANGED <<config, harness, socket, connected, hi_sent, session, hs, interrupted,
                 stop_pc, logs, stops, saw_stop, failed>>

\* line 226: while self.running
Loop ==
  /\ pc = "loop"
  /\ pc' = IF running THEN "connect_new" ELSE "done"
  /\ saw_stop' = (saw_stop \/ ~running)
  /\ UNCHANGED <<config, harness, socket, connected, running, hi_sent, reconnect_delay,
                 session, hs, interrupted, stop_pc, logs, stops, failed>>

(* ------------------------------------------------------------------ *)
(* connect                                                              *)
(* ------------------------------------------------------------------ *)
\* lines 46-47: a new socket object; the wire log starts again with it
ConnectNew ==
  /\ pc = "connect_new"
  /\ socket' = "open"
  /\ sent' = <<>>
  /\ failed' = FALSE
  /\ pc' = "connect_tcp"
  /\ UNCHANGED <<config, harness, connected, running, hi_sent, reconnect_delay, session, hs,
                 interrupted, stop_pc, out, greetings, joins, waits, ever_connected,
                 grown, stops, saw_stop>>

\* line 48: socket.connect(); an exception goes to lines 64-67 and 232
ConnectTcp ==
  /\ pc = "connect_tcp"
  /\ \E ok \in SendOutcomes :
       IF ok
         THEN /\ pc' = "handshake"
              /\ hs' = 1
              /\ UNCHANGED <<connected, failed>>
         ELSE /\ connected' = FALSE
              /\ failed' = TRUE
              /\ pc' = "finally"
              /\ UNCHANGED hs
  /\ UNCHANGED <<config, harness, socket, running, hi_sent, reconnect_delay, session,
                 interrupted, stop_pc, logs, stops, saw_stop>>

\* the i-th line connect() sends (lines 50-58), in the order swapped by a slip
HandshakeJoinFirst(i) ==
  IF i <= Len(channels) THEN <<"JOIN", channels[i]>>
  ELSE CASE i = Len(channels) + 1 -> <<"PASS", oauth_token>>
         [] i = Len(channels) + 2 -> <<"NICK", bot_username>>
         [] i = Len(channels) + 3 -> <<"CAP REQ", "twitch.tv/membership">>
         [] i = Len(channels) + 4 -> <<"CAP REQ", "twitch.tv/tags">>
         [] OTHER -> <<"CAP REQ", "twitch.tv/commands">>

\* the i-th line connect() sends (lines 50-58)
HandshakeLine(i) ==
  CASE i = 1 -> <<"PASS", oauth_token>>
    [] i = 2 -> <<"NICK", bot_username>>
    [] i = 3 -> <<"CAP REQ", "twitch.tv/membership">>
    [] i = 4 -> <<"CAP REQ", "twitch.tv/tags">>
    [] i = 5 -> <<"CAP REQ", "twitch.tv/commands">>
    [] OTHER -> <<"JOIN", channels[i - 5]>>

\* the number of lines connect() sends
HandshakeLen == 5 + Len(channels)

\* lines 50-58, with connect() trying again by itself when a send raises
HandshakeRetries ==
  /\ pc = "handshake"
  /\ \E ok \in SendOutcomes :
       IF ok
         THEN /\ sent' = Append(sent, HandshakeLine(hs))
              /\ IF hs = HandshakeLen
                   THEN pc' = "connect_ok" /\ hs' = 0
                   ELSE pc' = "handshake" /\ hs' = hs + 1
              /\ UNCHANGED <<connected, failed>>
         ELSE /\ connected' = FALSE
              /\ failed' = TRUE
              /\ pc' = "connect_new"
              /\ hs' = 0
              /\ UNCHANGED sent
  /\ UNCHANGED <<config, harness, socket, running, hi_sent, reconnect_delay, session,
                 interrupted, stop_pc, out, greetings, joins, waits, ever_connected,
                 grown, stops, saw_stop>>

\* lines 50-58: one socket.send(); an exception goes to lines 64-67 and 232
Handshake ==
  /\ pc = "handshake"
  /\ \E ok \in SendOutcomes :
       IF ok
         THEN /\ sent' = Append(sent, HandshakeLine(hs))
              /\ IF hs = HandshakeLen
                   THEN pc' = "connect_ok" /\ hs' = 0
                   ELSE pc' = "handshake" /\ hs' = hs + 1
              /\ UNCHANGED <<connected, failed>>
         ELSE /\ connected' = FALSE
              /\ failed' = TRUE
              /\ pc' = "finally"
              /\ hs' = 0
              /\ UNCHANGED sent
  /\ UNCHANGED <<config, harness, socket, running, hi_sent, reconnect_delay, session,
                 interrupted, stop_pc, out, greetings, joins, waits, ever_connected,
                 grown, stops, saw_stop>>

\* lines 60-62: self.connected = True; return True
ConnectOk ==
  /\ pc = "connect_ok"
  /\ connected' = TRUE
  /\ ever_connected' = TRUE
  /\ pc' = "reset"
  /\ UNCHANGED <<config, harness, socket, running, hi_sent, reconnect_delay, session, hs,
                 interrupted, stop_pc, sent, out, greetings, joins, waits, grown,
                 stops, saw_stop, failed>>

\* the delay after a successful connect, were line 229 missing
ConnectedDelayKept == reconnect_delay

\* line 229: the delay after a successful connect
ConnectedDelay == self_reconnect_delay

\* line 229, then listen() lines 188-189
Reset ==
  /\ pc = "reset"
  /\ reconnect_delay' = ConnectedDelay
  /\ grown' = (reconnect_delay > self_reconnect_delay)
  /\ waits' = <<>>
  /\ buffer' = <<>>
  /\ ping_age' = 0
  /\ pc' = "listen"
  /\ UNCHANGED <<config, harness, socket, connected, running, hi_sent, joined_channel, hs,
                 interrupted, stop_pc, sent, out, greetings, joins, ever_connected,
                 stops, saw_stop, failed>>

(* ------------------------------------------------------------------ *)
(* send_message, send_pong, send_ping                                   *)
(* ------------------------------------------------------------------ *)
\* lines 95-101 with a failed send only logged: line 101 missing
SendLineKeepsState(line, ok) ==
  IF connected /\ socket # None
    THEN IF ok
           THEN out' = line /\ UNCHANGED <<connected, failed>>
           ELSE failed' = TRUE /\ out' = NoLine /\ UNCHANGED connected
    ELSE out' = NoLine /\ UNCHANGED <<connected, failed>>

\* the guarded socket.send() of send_pong and send_ping (lines 95-101, 105-111)
SendLine(line, ok) ==
  IF connected /\ socket # None
    THEN IF ok
           THEN out' = line /\ UNCHANGED <<connected, failed>>
           ELSE connected' = FALSE /\ failed' = TRUE /\ out' = NoLine
    ELSE out' = NoLine /\ UNCHANGED <<connected, failed>>

\* send_pong answering with the server's name instead of the token it was given
send_pong_fixed(server, ok) == SendLine(<<"PONG", "tmi.twitch.tv">>, ok)

\* send_pong (lines 93-101)
send_pong(server, ok) == SendLine(<<"PONG", server>>, ok)

\* send_ping (lines 103-111)
send_ping(ok) == SendLine(<<"PING", "tmi.twitch.tv">>, ok)

\* send_message without the test of lines 85-87
send_message_unchecked(message, channel, ok) ==
  IF connected /\ socket # None
    THEN LET target_channel == IF channel # None THEN Lower(channel) ELSE channels[1]
         IN  IF ok
               THEN /\ out' = <<"PRIVMSG", target_channel, message>>
                    /\ greetings' =
                         IF message = "hi" /\ target_channel \in DOMAIN greetings
                           THEN [greetings EXCEPT ![target_channel] =
                                   Min(@ + 1, MaxGreetings)]
                           ELSE greetings
                    /\ UNCHANGED <<connected, failed>>
               ELSE /\ connected' = FALSE
                    /\ failed' = TRUE
                    /\ out' = NoLine
                    /\ UNCHANGED greetings
    ELSE out' = NoLine /\ UNCHANGED <<connected, failed, greetings>>

\* send_message (lines 79-91); a line with the text "hi" is a greeting
send_message(message, channel, ok) ==
  IF connected /\ socket # None
    THEN LET target_channel == IF channel # None THEN Lower(channel) ELSE channels[1]
         IN  IF target_channel \notin Range(channels)
               THEN out' = NoLine /\ UNCHANGED <<connected, failed, greetings>>
               ELSE IF ok
                      THEN /\ out' = <<"PRIVMSG", target_channel, message>>
                           /\ greetings' =
                                IF message = "hi"
                                  THEN [greetings EXCEPT ![target_channel] =
                                          Min(@ + 1, MaxGreetings)]
                                  ELSE greetings
                           /\ UNCHANGED <<connected, failed>>
                      ELSE /\ connected' = FALSE
                           /\ failed' = TRUE
                           /\ out' = NoLine
                           /\ UNCHANGED greetings
    ELSE out' = NoLine /\ UNCHANGED <<connected, failed, greetings>>

(* ------------------------------------------------------------------ *)
(* listen and handle_message                                            *)
(* ------------------------------------------------------------------ *)
\* the parsed events the server sends
Ev(c, p) == [command |-> c, params |-> p]

Inbound ==
  { Ev("PING", <<":tmi.twitch.tv">>), Ev("PING", <<>>),
    Ev("JOIN", <<"#Foo">>), Ev("JOIN", <<"#bar">>),
    Ev("RECONNECT", <<>>) }

\* what one recv() can deliver: 1..MaxChunk complete lines
Chunks == UNION {[1..n -> Inbound] : n \in 1..MaxChunk}

\* the time one blocking call may take
RecvElapses == {0, ping_interval, ping_interval + 1}

\* time.time() - last_ping after d more time units (kept up to "over the interval")
Advance(age, d) == Min(age + d, ping_interval + 1)

\* line 191 as `while self.running`
ListenWhileRunning ==
  /\ pc = "listen"
  /\ pc' = IF running THEN "ping" ELSE "finally"
  /\ saw_stop' = (saw_stop \/ ~running)
  /\ out' = NoLine
  /\ UNCHANGED <<config, harness, socket, connected, running, hi_sent, reconnect_delay,
                 session, hs, interrupted, stop_pc, sent, greetings, joins, waits,
                 ever_connected, grown, stops, failed>>

\* line 191: while self.running and self.connected
Listen ==
  /\ pc = "listen"
  /\ pc' = IF running /\ connected THEN "ping" ELSE "finally"
  /\ saw_stop' = (saw_stop \/ ~running)
  /\ out' = NoLine
  /\ UNCHANGED <<config, harness, socket, connected, running, hi_sent, reconnect_delay,
                 session, hs, interrupted, stop_pc, sent, greetings, joins, waits,
                 ever_connected, grown, stops, failed>>

\* lines 193-195 with `>=` for `>`
PingAtInterval ==
  /\ pc = "ping"
  /\ IF ping_age >= ping_interval
       THEN /\ \E ok \in SendOutcomes : send_ping(ok)
            /\ ping_age' = 0
       ELSE out' = NoLine /\ UNCHANGED <<connected, failed, ping_age>>
  /\ pc' = "recv"
  /\ UNCHANGED <<config, harness, socket, running, hi_sent, reconnect_delay, buffer,
                 joined_channel, hs, interrupted, stop_pc, sent, greetings, joins, waits,
                 ever_connected, grown, stops, saw_stop>>

\* lines 193-195: the keepalive probe
Ping ==
  /\ pc = "ping"
  /\ IF ping_age > ping_interval
       THEN /\ \E ok \in SendOutcomes : send_ping(ok)
            /\ ping_age' = 0
       ELSE out' = NoLine /\ UNCHANGED <<connected, failed, ping_age>>
  /\ pc' = "recv"
  /\ UNCHANGED <<config, harness, socket, running, hi_sent, reconnect_delay, buffer,
                 joined_channel, hs, interrupted, stop_pc, sent, greetings, joins, waits,
                 ever_connected, grown, stops, saw_stop>>

\* lines 197-205 and 212-217, were a read error not caught: it ends the supervisor
RecvRaises ==
  /\ pc = "recv"
  /\ \E d \in RecvElapses : ping_age' = Advance(ping_age, d)
  /\ out' = NoLine
  /\ \/ /\ socket = "open"
        /\ \E chunk \in Chunks : buffer' = buffer \o chunk
        /\ pc' = "dispatch"
        /\ UNCHANGED <<connected, failed>>
     \/ /\ socket = "open"
        /\ pc' = "listen"
        /\ UNCHANGED <<buffer, connected, failed>>
     \/ /\ connected' = FALSE
        /\ failed' = TRUE
        /\ pc' = "done"
        /\ UNCHANGED buffer
  /\ UNCHANGED <<config, harness, socket, running, hi_sent, reconnect_delay, joined_channel,
                 hs, interrupted, stop_pc, sent, greetings, joins, waits,
                 ever_connected, grown, stops, saw_stop>>

\* lines 197-205 and 212-217: settimeout and recv: data, a timeout, no data
\* (peer closed) or an exception (always, on a closed socket)
Recv ==
  /\ pc = "recv"
  /\ \E d \in RecvElapses : ping_age' = Advance(ping_age, d)
  /\ out' = NoLine
  /\ \/ /\ socket = "open"
        /\ \E chunk \in Chunks : buffer' = buffer \o chunk
        /\ pc' = "dispatch"
        /\ UNCHANGED <<connected, failed>>
     \/ /\ socket = "open"
        /\ pc' = "listen"
        /\ UNCHANGED <<buffer, connected, failed>>
     \/ /\ connected' = FALSE
        /\ failed' = TRUE
        /\ pc' = "finally"
        /\ UNCHANGED buffer
  /\ UNCHANGED <<config, harness, socket, running, hi_sent, reconnect_delay, joined_channel,
                 hs, interrupted, stop_pc, sent, greetings, joins, waits,
                 ever_connected, grown, stops, saw_stop>>

\* line 160 without the look at hi_sent
GreetAgain(jc) == jc = announce_channel

\* line 160 without the comparison with the announce room
GreetAny(jc) == jc \notin hi_sent

\* line 160: the room is the announce room and was not announced yet
ShouldGreet(jc) == jc = announce_channel /\ jc \notin hi_sent

\* lines 207-210 with handle_message (lines 145-184) up to the greeting's sleep
Dispatch ==
  /\ pc = "dispatch"
  /\ IF buffer = <<>>
       THEN /\ pc' = "listen"
            /\ out' = NoLine
            /\ UNCHANGED <<buffer, joined_channel, connected, failed, joins>>
       ELSE LET parsed == Head(buffer)
                command == parsed.command
            IN  /\ buffer' = Tail(buffer)
                /\ CASE command = "PING" ->
                          /\ IF parsed.params # <<>>
                               THEN \E ok \in SendOutcomes :
                                      send_pong(parsed.params[1], ok)
                               ELSE out' = NoLine /\ UNCHANGED <<connected, failed>>
                          /\ pc' = "dispatch"
                          /\ UNCHANGED <<joined_channel, joins>>
                     [] command = "JOIN" ->
                          IF announce_channel # None /\ Len(parsed.params) >= 1
                            THEN LET jc == Lower(LStripHash(parsed.params[1]))
                                 IN  /\ joins' = IF jc = announce_channel
                                                    THEN Min(joins + 1, MaxJoins)
                                                    ELSE joins
                                     /\ IF ShouldGreet(jc)
                                          THEN joined_channel' = jc /\ pc' = "hi_sleep"
                                          ELSE pc' = "dispatch" /\ UNCHANGED joined_channel
                                     /\ out' = NoLine
                                     /\ UNCHANGED <<connected, failed>>
                            ELSE /\ pc' = "dispatch"
                                 /\ out' = NoLine
                                 /\ UNCHANGED <<joined_channel, connected,
                                                failed, joins>>
                     [] command = "RECONNECT" ->
                          /\ connected' = FALSE
                          /\ pc' = "dispatch"
                          /\ out' = NoLine
                          /\ UNCHANGED <<joined_channel, failed, joins>>
                     [] OTHER ->
                          /\ pc' = "dispatch"
                          /\ out' = NoLine
                          /\ UNCHANGED <<joined_channel, connected, failed, joins>>
  /\ UNCHANGED <<config, harness, socket, running, hi_sent, reconnect_delay, ping_age, hs,
                 interrupted, stop_pc, sent, greetings, waits, ever_connected, grown,
                 stops, saw_stop>>

\* line 161: time.sleep(2)
HiSleep ==
  /\ pc = "hi_sleep"
  /\ ping_age' = Advance(ping_age, greeting_delay)
  /\ pc' = "hi_send"
  /\ UNCHANGED <<config, harness, socket, connected, running, hi_sent, reconnect_delay,
                 buffer, joined_channel, hs, interrupted, stop_pc, logs,
                 stops, saw_stop, failed>>

\* lines 162-163: send_message("hi", joined_channel); hi_sent.add(joined_channel)
HiSend ==
  /\ pc = "hi_send"
  /\ \E ok \in SendOutcomes : send_message("hi", joined_channel, ok)
  /\ hi_sent' = hi_sent \cup {joined_channel}
  /\ joined_channel' = None
  /\ pc' = "dispatch"
  /\ UNCHANGED <<config, harness, socket, running, reconnect_delay, buffer, ping_age, hs,
                 interrupted, stop_pc, sent, joins, waits, ever_connected, grown,
                 stops, saw_stop>>

(* ------------------------------------------------------------------ *)
(* run_with_reconnect: the end of a session and the backoff             *)
(* ------------------------------------------------------------------ *)
\* disconnect (lines 69-77) on the socket
Closed(sock) == IF sock # None THEN "closed" ELSE sock

\* line 242 with the disconnect() left out
FinallySkipped ==
  /\ pc = "finally"
  /\ buffer' = <<>>
  /\ joined_channel' = None
  /\ hs' = 0
  /\ ping_age' = 0
  /\ sent' = <<>>
  /\ out' = NoLine
  /\ pc' = IF interrupted THEN "done" ELSE "backoff"
  /\ UNCHANGED <<config, harness, socket, connected, running, hi_sent, reconnect_delay,
                 interrupted, stop_pc, greetings, joins, waits, ever_connected,
                 grown, stops, saw_stop, failed>>

\* line 242: finally: self.disconnect(); the locals of connect() and listen() are
\* gone; after the break of line 237 the loop is left
Finally ==
  /\ pc = "finally"
  /\ socket' = Closed(socket)
  /\ connected' = FALSE
  /\ buffer' = <<>>
  /\ joined_channel' = None
  /\ hs' = 0
  /\ ping_age' = 0
  /\ sent' = <<>>
  /\ out' = NoLine
  /\ pc' = IF interrupted THEN "done" ELSE "backoff"
  /\ UNCHANGED <<config, harness, running, hi_sent, reconnect_delay, interrupted, stop_pc,
                 greetings, joins, waits, ever_connected, grown, stops, saw_stop,
                 failed>>

\* line 244 with the wait done whatever the flag says
BackoffAlways ==
  /\ pc = "backoff"
  /\ pc' = "sleep"
  /\ saw_stop' = (saw_stop \/ ~running)
  /\ UNCHANGED <<config, harness, socket, connected, running, hi_sent, reconnect_delay,
                 session, hs, interrupted, stop_pc, logs, stops, failed>>

\* line 244: if self.running
Backoff ==
  /\ pc = "backoff"
  /\ pc' = IF running THEN "sleep" ELSE "loop"
  /\ saw_stop' = (saw_stop \/ ~running)
  /\ UNCHANGED <<config, harness, socket, connected, running, hi_sent, reconnect_delay,
                 session, hs, interrupted, stop_pc, logs, stops, failed>>

\* lines 245-246: time.sleep(reconnect_delay)
Sleep ==
  /\ pc = "sleep"
  /\ waits' = IF Len(waits) < MaxWaits THEN Append(waits, reconnect_delay) ELSE waits
  /\ pc' = "double"
  /\ UNCHANGED <<config, harness, socket, connected, running, hi_sent, reconnect_delay,
                 session, hs, interrupted, stop_pc, sent, out, greetings, joins,
                 ever_connected, grown, stops, saw_stop, failed>>

\* line 248 without the cap
NextDelayUncapped(d) == d * 2

\* line 248 growing by the initial delay instead of doubling
NextDelayLinear(d) == Min(d + self_reconnect_delay, max_reconnect_delay)

\* line 248: min(reconnect_delay * 2, self.max_reconnect_delay)
NextDelay(d) == Min(d * 2, max_reconnect_delay)

\* line 248
Double ==
  /\ pc = "double"
  /\ reconnect_delay' = NextDelay(reconnect_delay)
  /\ pc' = "loop"
  /\ UNCHANGED <<config, harness, socket, connected, running, hi_sent, session, hs,
                 interrupted, stop_pc, logs, stops, saw_stop, failed>>

\* the statements inside the try of lines 227-233
InTry ==
  pc \in {"connect_new", "connect_tcp", "handshake", "connect_ok", "reset", "listen",
          "ping", "recv", "dispatch", "hi_sleep", "hi_send"}

\* KeyboardInterrupt in the supervisor thread: inside the try, lines 234-237 and
\* then the finally; outside it, it leaves run_with_reconnect and main() calls
\* stop() (lines 286-288)
KeyboardInterrupt ==
  /\ pc \notin {"done", "main_stop"}
  /\ ~interrupted
  /\ interrupted' = TRUE
  /\ IF InTry
       THEN running' = FALSE /\ pc' = "finally"
       ELSE UNCHANGED running /\ pc' = "main_stop"
  /\ UNCHANGED <<config, harness, socket, connected, hi_sent, reconnect_delay, session, hs,
                 stop_pc, logs, stops, saw_stop, failed>>

\* lines 286-288: main() calls stop() after the interrupt
MainStop ==
  /\ pc = "main_stop"
  /\ running' = FALSE
  /\ socket' = Closed(socket)
  /\ connected' = FALSE
  /\ buffer' = <<>>
  /\ joined_channel' = None
  /\ hs' = 0
  /\ ping_age' = 0
  /\ sent' = <<>>
  /\ out' = NoLine
  /\ pc' = "done"
  /\ UNCHANGED <<config, harness, hi_sent, reconnect_delay, interrupted, stop_pc, greetings,
                 joins, waits, ever_connected, grown, stops, saw_stop, failed>>

(* ------------------------------------------------------------------ *)
(* stop(), called from another thread                                   *)
(* ------------------------------------------------------------------ *)
\* stop() is called on a bot whose run_with_reconnect() has begun (as main() does,
\* lines 285-288); line 254: self.running = False
StopCall ==
  /\ stop_pc = "idle"
  /\ pc # "start"
  /\ stops < MaxStops
  /\ running' = FALSE
  /\ stops' = stops + 1
  /\ stop_pc' = "close"
  /\ UNCHANGED <<config, harness, socket, connected, hi_sent, reconnect_delay, session, pc,
                 hs, interrupted, logs, saw_stop, failed>>

\* lines 71-75: disconnect() closes the socket
StopClose ==
  /\ stop_pc = "close"
  /\ socket' = Closed(socket)
  /\ stop_pc' = "clear"
  /\ UNCHANGED <<config, harness, connected, running, hi_sent, reconnect_delay, session, pc,
                 hs, interrupted, logs, stops, saw_stop, failed>>

\* line 76: self.connected = False
StopClear ==
  /\ stop_pc = "clear"
  /\ connected' = FALSE
  /\ stop_pc' = "idle"
  /\ UNCHANGED <<config, harness, socket, running, hi_sent, reconnect_delay, session, pc, hs,
                 interrupted, logs, stops, saw_stop, failed>>

(* ------------------------------------------------------------------ *)
(* The specifications                                                   *)
(* ------------------------------------------------------------------ *)
\* the steps of the supervisor thread
Supervisor ==
  \/ Start \/ Loop \/ ConnectNew \/ ConnectTcp \/ Handshake \/ ConnectOk \/ Reset
  \/ Listen \/ Ping \/ Recv \/ Dispatch \/ HiSleep \/ HiSend
  \/ Finally \/ Backoff \/ Sleep \/ Double \/ MainStop

Next ==
  \/ Start \/ Loop \/ ConnectNew \/ ConnectTcp \/ Handshake \/ ConnectOk \/ Reset
  \/ Listen \/ Ping \/ Recv \/ Dispatch \/ HiSleep \/ HiSend
  \/ Finally \/ Backoff \/ Sleep \/ Double
  \/ KeyboardInterrupt \/ MainStop
  \/ StopCall \/ StopClose \/ StopClear

Spec == Init /\ [][Next]_vars

\* every blocking call returns and a thread that can take a step takes one
LiveSpec ==
  /\ Init
  /\ [][Next]_vars
  /\ WF_vars(Supervisor)
  /\ WF_vars(StopClose \/ StopClear)

(* ------------------------------------------------------------------ *)
(* The line framer of listen() (lines 205-210), on characters           *)
(* ------------------------------------------------------------------ *)
\* the characters str.strip() removes, among those the harness uses
Whitespace == {" ", "\t", "\r", "\n"}

\* str.strip()
Strip(s) ==
  LET keep == {i \in 1..Len(s) : s[i] \notin Whitespace}
  IN  IF keep = {}
        THEN <<>>
        ELSE SubSeq(s, CHOOSE i \in keep : \A j \in keep : i <= j,
                       CHOOSE i \in keep : \A j \in keep : i >= j)

\* buffer.find('\r\n') + 1: the position of the first terminator, 0 when there is none
FindCRLF(s) ==
  LET at == {i \in 1..(Len(s) - 1) : s[i] = "\r" /\ s[i + 1] = "\n"}
  IN  IF at = {} THEN 0 ELSE CHOOSE i \in at : \A j \in at : i <= j

\* lines 207-210: while '\r\n' in buffer: split off a line, hand it on unless blank
RECURSIVE Frame(_, _)
Frame(buf, handed) ==
  LET at == FindCRLF(buf)
  IN  IF at = 0
        THEN [buffer |-> buf, handed |-> handed]
        ELSE LET line == SubSeq(buf, 1, at - 1)
                 rest == SubSeq(buf, at + 2, Len(buf))
             IN  Frame(rest, IF Strip(line) # <<>>
                               THEN Append(handed, Strip(line))
                               ELSE handed)

\* line 205 as `buffer = data`
FeedReplaces(buf, data) == data

\* line 205: buffer += data
Feed(buf, data) == buf \o data

\* the three lines of the framing example and the stream that carries them
LineA == <<"A", "1">>
LineB == <<"B">>
LineC == <<"C">>
CRLF == <<"\r", "\n">>
ABCStream == LineA \o CRLF \o LineB \o CRLF \o LineC \o CRLF
ABCThenPartial == ABCStream \o <<"D">>

\* the streams the server sends: the example, the example followed by an
\* unterminated rest, and every short stream of line and terminator characters
StreamChars == {"A", " ", "\r", "\n"}
Streams ==
  {ABCStream, ABCThenPartial} \cup UNION {[1..n -> StreamChars] : n \in 1..MaxStream}

\* a bot whose read loop is fed the stream st
FramerInit ==
  /\ Constructed
  /\ \E st \in Streams : call = st /\ wire = st
  /\ raw = <<>>
  /\ lines = <<>>
  /\ ret = <<>>
  /\ logged = <<>>

\* lines 198-210: one recv() returning the next n >= 1 characters, then the framing
FramerRecv ==
  /\ wire # <<>>
  /\ \E n \in 1..Len(wire) :
       LET data == SubSeq(wire, 1, n)
           framed == Frame(Feed(raw, data), lines)
       IN  /\ wire' = SubSeq(wire, n + 1, Len(wire))
           /\ raw' = framed.buffer
           /\ lines' = framed.handed
  /\ UNCHANGED <<bot, call, ret, logged>>

FramerSpec == FramerInit /\ [][FramerRecv]_vars

(* ------------------------------------------------------------------ *)
(* send_message called on a bot in any state of its fields              *)
(* ------------------------------------------------------------------ *)
\* the arguments of the calls: texts, and rooms given, not given, or not configured
MessageArgs == {"hi", "yo"}
ChannelCallArgs == {None, "Foo", "FOO", "bar", "baz"}

\* a bot after any history: configured, connected or not, its socket open, closed
\* or (when not connected) absent, the announce room greeted or not
SendInit ==
  /\ \E chs \in ChannelArgs, ann \in AnnounceArgs :
       /\ ann # None => Lower(ann) \in {Lower(chs[i]) : i \in 1..Len(chs)}
       /\ channels = [i \in 1..Len(chs) |-> Lower(chs[i])]
       /\ announce_channel = IF ann # None THEN Lower(ann) ELSE None
  /\ connected \in BOOLEAN
  /\ socket \in IF connected THEN {"open", "closed"} ELSE {None, "open", "closed"}
  /\ hi_sent \in SUBSET ({announce_channel} \ {None})
  /\ running = FALSE
  /\ reconnect_delay = self_reconnect_delay
  /\ buffer = <<>>
  /\ ping_age = 0
  /\ joined_channel = None
  /\ pc = "start"
  /\ hs = 0
  /\ interrupted = FALSE
  /\ stop_pc = "idle"
  /\ sent = <<>>
  /\ out = NoLine
  /\ greetings = [r \in Rooms |-> 0]
  /\ joins = 0
  /\ waits = <<>>
  /\ ever_connected = connected
  /\ grown = FALSE
  /\ stops = 0
  /\ saw_stop = FALSE
  /\ failed = FALSE
  /\ wire = <<>>
  /\ raw = <<>>
  /\ lines = <<>>
  /\ call = [n |-> 0, message |-> None, channel |-> None]
  /\ ret = <<>>
  /\ logged = <<>>

\* one call send_message(message, channel) (lines 79-91)
SendCall ==
  /\ call.n < MaxCalls
  /\ \E message \in MessageArgs, channel \in ChannelCallArgs, ok \in SendOutcomes :
       /\ send_message(message, channel, ok)
       /\ call' = [n |-> call.n + 1, message |-> message, channel |-> channel]
  /\ UNCHANGED <<config, socket, running, hi_sent, reconnect_delay, session, pc, hs,
                 interrupted, stop_pc, sent, joins, waits, ever_connected, grown, stops,
                 saw_stop, wire, raw, lines, ret, logged>>

SendSpec == SendInit /\ [][SendCall]_vars

(* ------------------------------------------------------------------ *)
(* parse_message and the PRIVMSG branch of handle_message, on characters *)
(* ------------------------------------------------------------------ *)
\* a Python index into s, negative ones counted from the end, cut to 0..len(s)
PyIndex(s, k) ==
  IF k < 0
    THEN IF Len(s) + k < 0 THEN 0 ELSE Len(s) + k
    ELSE Min(k, Len(s))

\* s[i:j]
PySlice(s, i, j) ==
  IF PyIndex(s, i) < PyIndex(s, j)
    THEN SubSeq(s, PyIndex(s, i) + 1, PyIndex(s, j))
    ELSE <<>>

\* s[i:]
PySliceFrom(s, i) == PySlice(s, i, Len(s))

\* s.find(c): the 0-based position of the first c, -1 when there is none
PyFind(s, c) ==
  LET at == {i \in 1..Len(s) : s[i] = c}
  IN  IF at = {} THEN -1 ELSE (CHOOSE i \in at : \A j \in at : i <= j) - 1

\* s.startswith(c)
StartsWith(s, c) == Len(s) >= 1 /\ s[1] = c

\* s.split(c): always at least one piece
RECURSIVE PySplit(_, _)
PySplit(s, c) ==
  IF PyFind(s, c) = -1
    THEN <<s>>
    ELSE <<PySlice(s, 0, PyFind(s, c))>> \o PySplit(PySliceFrom(s, PyFind(s, c) + 1), c)

\* c.join(pieces)
RECURSIVE PyJoin(_, _)
PyJoin(pieces, c) ==
  IF pieces = <<>> THEN <<>>
  ELSE IF Len(pieces) = 1 THEN pieces[1]
  ELSE pieces[1] \o <<c>> \o PyJoin(Tail(pieces), c)

\* the empty dict
NoTags == [k \in {} |-> <<>>]

\* lines 129-132: the dict of the tags that hold '=', a later key replacing an earlier
RECURSIVE TagDict(_, _)
TagDict(tag_list, dict) ==
  IF tag_list = <<>>
    THEN dict
    ELSE LET tag == Head(tag_list)
             at == PyFind(tag, "=")
         IN  TagDict(Tail(tag_list),
                     IF at # -1
                       THEN (PySlice(tag, 0, at) :> PySliceFrom(tag, at + 1)) @@ dict
                       ELSE dict)

\* line 136 as message[0:prefix_end]
PrefixWithColon(message, prefix_end) == PySlice(message, 0, prefix_end)

\* line 136: message[1:prefix_end]
PrefixOf(message, prefix_end) == PySlice(message, 1, prefix_end)

\* parse_message (lines 113-143)
parse_message(message) ==
  LET has_tags == StartsWith(message, "@")
      tags_end == PyFind(message, " ")
      tags_str == PySlice(message, 1, tags_end)
      after_tags == IF has_tags THEN PySliceFrom(message, tags_end + 1) ELSE message
      has_prefix == StartsWith(after_tags, ":")
      prefix_end == PyFind(after_tags, " ")
      after_prefix ==
        IF has_prefix THEN PySliceFrom(after_tags, prefix_end + 1) ELSE after_tags
      parts == PySplit(after_prefix, " ")
  IN  [raw |-> message,
       tags |-> IF has_tags THEN TagDict(PySplit(tags_str, ";"), NoTags) ELSE NoTags,
       prefix |-> IF has_prefix THEN PrefixOf(after_tags, prefix_end) ELSE <<>>,
       command |-> parts[1],
       params |-> Tail(parts)]

\* lines 166-173: what the PRIVMSG branch logs: one entry, or nothing
privmsg_log(parsed) ==
  IF Len(parsed.params) >= 2
    THEN LET joined == PyJoin(Tail(parsed.params), " ")
         IN  << [channel |-> parsed.params[1],
                 username |-> IF "!" \in Range(parsed.prefix)
                                THEN PySplit(parsed.prefix, "!")[1]
                                ELSE parsed.prefix,
                 msg_content |-> IF StartsWith(joined, ":")
                                   THEN PySliceFrom(joined, 1)
                                   ELSE joined] >>
    ELSE <<>>

PRIVMSG == <<"P", "R", "I", "V", "M", "S", "G">>

\* the pieces of the lines parsed: no tags, '@badge=1;color=#fff ', '@a=b=c;a=d;e '
TagParts ==
  { <<>>,
    <<"@", "b", "a", "d", "g", "e", "=", "1", ";", "c", "o", "l", "o", "r", "=", "#", "f", "f", "f", " ">>,
    <<"@", "a", "=", "b", "=", "c", ";", "a", "=", "d", ";", "e", " ">> }

\* no prefix, ':nick!user@host ', ':tmi.tv '
PrefixParts ==
  { <<>>,
    <<":", "n", "i", "c", "k", "!", "u", "s", "e", "r", "@", "h", "o", "s", "t", " ">>,
    <<":", "t", "m", "i", ".", "t", "v", " ">> }

\* 'PRIVMSG', '001'
CommandParts ==
  { <<"P", "R", "I", "V", "M", "S", "G">>,
    <<"0", "0", "1">> }

\* no parameters, ' #room', ' #room :hello world', ' #room hi'
ParamParts ==
  { <<>>,
    <<" ", "#", "r", "o", "o", "m">>,
    <<" ", "#", "r", "o", "o", "m", " ", ":", "h", "e", "l", "l", "o", " ", "w", "o", "r", "l", "d">>,
    <<" ", "#", "r", "o", "o", "m", " ", "h", "i">> }

\* the lines handed to the parser: the well-formed ones made of the pieces above,
\* and every short line of separator characters and a letter
ParseChars == {"@", ":", " ", ";", "=", "a"}
ParseInputs ==
  {t \o p \o c \o a : t \in TagParts, p \in PrefixParts, c \in CommandParts, a \in ParamParts}
    \cup UNION {[1..n -> ParseChars] : n \in 1..MaxLine}

\* a bot handed the line `call`
ParseInit ==
  /\ Constructed
  /\ call \in ParseInputs
  /\ ret = <<>>
  /\ logged = <<>>
  /\ wire = <<>>
  /\ raw = <<>>
  /\ lines = <<>>

\* line 147: parsed = self.parse_message(message)
ParseCall ==
  /\ ret = <<>>
  /\ ret' = <<parse_message(call)>>
  /\ UNCHANGED <<bot, wire, raw, lines, call, logged>>

\* lines 165-173: the PRIVMSG branch of handle_message
PrivmsgBranch ==
  /\ ret # <<>>
  /\ ret[1].command = PRIVMSG
  /\ logged = <<>>
  /\ logged' = privmsg_log(ret[1])
  /\ UNCHANGED <<bot, wire, raw, lines, call, ret>>

ParseSpec == ParseInit /\ [][ParseCall \/ PrivmsgBranch]_vars

(* ------------------------------------------------------------------ *)
(* Properties                                                           *)
(* ------------------------------------------------------------------ *)
\* a stop was requested: stop() was called or the user interrupted the supervisor
StopRequested == stop_called \/ interrupted

\* the supervisor begins a connection attempt, sends a handshake line or begins a
\* backoff wait in this step
StartsAttempt ==
  \/ pc = "connect_new" /\ pc' = "connect_tcp"
  \/ pc = "handshake" /\ sent' # sent
  \/ pc = "sleep" /\ pc' = "double"

\* the lines of the handshake in the order the protocol asks for
ExpectedHandshake ==
  << <<"PASS", oauth_token>>, <<"NICK", bot_username>>,
     <<"CAP REQ", "twitch.tv/membership">>, <<"CAP REQ", "twitch.tv/tags">>,
     <<"CAP REQ", "twitch.tv/commands">> >>
  \o [i \in 1..Len(channels) |-> <<"JOIN", channels[i]>>]

\* C1: in one process run at most one greeting line is ever sent to a room, and
\* the announced-rooms set hi_sent only grows, through every session, disconnect
\* and reconnect.
C1_GreetingAtMostOnce ==
  [][(\A r \in Rooms : greetings'[r] <= 1) /\ hi_sent \subseteq hi_sent']_vars

\* C1: a second JOIN for the announce room was dispatched and the room still has
\* its one greeting.
C1_Witness ==
  /\ announce_channel # None
  /\ joins >= 2
  /\ greetings[announce_channel] = 1
  /\ announce_channel \in hi_sent
  /\ pc = "dispatch"

\* C2: once two JOIN confirmations for the announce room were handled, exactly one
\* greeting was sent to it, and a room is marked announced only when its greeting
\* was sent.
C2_ExactlyOneGreeting ==
  announce_channel # None =>
    /\ announce_channel \in hi_sent => greetings[announce_channel] >= 1
    /\ (joins >= 2 /\ pc \notin {"hi_sleep", "hi_send"}) =>
         greetings[announce_channel] = 1

\* C3: a greeting was sent to a room only if that room is the announce room and a
\* JOIN event for it was dispatched before.
C3_GreetingAfterJoin ==
  \A r \in Rooms : greetings[r] > 0 => (r = announce_channel /\ joins > 0)

\* C3: the greeting of the announce room has just been sent.
C3_Witness ==
  /\ announce_channel # None
  /\ out = <<"PRIVMSG", announce_channel, "hi">>
  /\ greetings[announce_channel] = 1
  /\ joins = 1

\* C4: the backoff delay always lies between the initial delay 5 and the maximum 300.
C4_DelayInRange == 5 <= reconnect_delay /\ reconnect_delay <= 300

\* C4: the delay was doubled at the cap and stayed there.
C4_Witness ==
  /\ pc = "loop"
  /\ reconnect_delay = 300
  /\ waits # <<>>
  /\ waits[Len(waits)] = 300

\* C5: from a fresh start, the k-th wait of consecutive connection failures is
\* min(5 * 2^(k-1), 300), and each wait is performed before the delay is doubled.
C5_BackoffSequence ==
  ~ever_connected =>
    /\ \A k \in 1..Len(waits) : waits[k] = Min(5 * 2^(k - 1), 300)
    /\ (pc = "double" /\ waits # <<>>) => waits[Len(waits)] = reconnect_delay

\* C5: seven connection failures in a row from the start: the seventh wait is capped.
C5_Witness ==
  /\ ~ever_connected
  /\ Len(waits) >= 7
  /\ waits[5] = 80
  /\ waits[7] = 300

\* C6: the first wait after a successful connect is the initial delay 5.
C6_ResetOnConnect == (ever_connected /\ waits # <<>>) => waits[1] = 5

\* C6: the delay had grown, a connect succeeded, and the next wait was performed.
C6_Witness == grown /\ waits # <<>> /\ pc = "double"

\* C7: run_with_reconnect returns only after a stop request, and while none is made
\* every transport error is followed by a new connection attempt.
C7_ErrorsAreRetried ==
  /\ [](pc = "done" => StopRequested)
  /\ (failed /\ ~StopRequested) ~> (pc = "connect_tcp" \/ StopRequested)

\* C7: a session that had connected failed and the supervisor is in its backoff.
C7_Witness == failed /\ ever_connected /\ ~StopRequested /\ pc = "sleep"

\* C8 as stated: once stop() has been called the supervisor starts no connection
\* attempt, sends no handshake line and begins no backoff wait.
C8_NothingStartsAfterStop == [][stop_called => ~StartsAttempt]_vars

\* C8 amended: once stop() has set running to False it stays False, and once the
\* supervisor has read it as False (lines 191, 226, 244) it starts no connection
\* attempt, sends no handshake line and begins no backoff wait.
C8_StopIsCooperative ==
  [][(stop_called => ~running') /\ (saw_stop => ~StartsAttempt)]_vars

\* C8: the supervisor has read the flag stop() cleared and is leaving its loop.
C8_Witness == stop_called /\ saw_stop /\ ~running /\ pc = "loop"

\* C9: after stop() is called, run_with_reconnect terminates and the state is
\* Disconnected from then on.
C9_StopTerminates == stop_called ~> [](pc = "done" /\ ~connected)

\* C9: stop() has returned and the connect() it raced with has set Connected.
C9_Witness == stop_called /\ stop_pc = "idle" /\ connected /\ pc = "reset"

\* C10: the lines connect() sent are always a prefix of PASS, NICK, the three
\* CAP REQ lines and one JOIN per configured room, in this order, and the state is
\* Connected only when all of them were sent.
C10_HandshakeOrder ==
  /\ \E n \in 0..Len(ExpectedHandshake) : sent = SubSeq(ExpectedHandshake, 1, n)
  /\ pc = "connect_ok" => sent = ExpectedHandshake
  /\ connected => sent = ExpectedHandshake

\* C10: connect() has returned success with two rooms joined.
C10_Witness ==
  /\ connected
  /\ pc = "listen"
  /\ Len(channels) = 2
  /\ sent = ExpectedHandshake

\* the statements of listen() and of the handlers it calls
SessionPcs == {"listen", "ping", "recv", "dispatch", "hi_sleep", "hi_send"}

\* a step of the supervisor that calls send_ping, send_pong or send_message
SendStep ==
  \/ pc = "ping" /\ pc' = "recv"
  \/ pc = "dispatch" /\ buffer' # buffer
  \/ pc = "hi_send" /\ pc' = "dispatch"

\* the socket.send of this step raised
SendFails == SendStep /\ ~failed /\ failed'

\* the supervisor dispatches the line at the head of the buffer, a `cmd` event
Dispatches(cmd) ==
  /\ pc = "dispatch"
  /\ buffer # <<>>
  /\ Head(buffer).command = cmd
  /\ buffer' = Tail(buffer)

\* the keepalive probe on the wire
Probe == <<"PING", "tmi.twitch.tv">>

\* C11: when connect() fails at the socket open or at any handshake send, the
\* state is Disconnected afterwards, control is back in the supervisor (line 232
\* and the finally), and connect() has opened no other socket and sent nothing more.
C11_ConnectFailure ==
  [][(pc \in {"connect_tcp", "handshake"} /\ failed') =>
       (~connected' /\ pc' = "finally" /\ socket' = socket /\ sent' = sent)]_vars

\* C11: connect() failed after some handshake lines had been sent.
C11_Witness ==
  /\ pc = "finally"
  /\ failed
  /\ ~connected
  /\ Len(sent) >= 2
  /\ Len(sent) < Len(ExpectedHandshake)

\* C12: a send operation puts a line on the socket only in the state Connected, a
\* send that raises sets Disconnected in the same step, and (no stop requested) a
\* session in which a send failed ends and is followed by a new connection attempt.
C12_SendOnlyConnected ==
  /\ [][(SendStep /\ out' # NoLine => connected) /\ (SendFails => ~connected')]_vars
  /\ (pc \in SessionPcs /\ failed /\ ~StopRequested)
       ~> (pc = "connect_tcp" \/ StopRequested)

\* C12: a send of the session raised and the read loop is about to end.
C12_Witness == pc = "listen" /\ failed /\ ~connected /\ ~StopRequested

\* C13: dispatching RECONNECT sets Disconnected and leaves the socket as it is,
\* and (no stop requested) the supervisor then reaches its backoff wait; it
\* terminates only on a stop request.
C13_ForcedReconnect ==
  /\ [][Dispatches("RECONNECT") => (~connected' /\ socket' = socket)]_vars
  /\ [](pc = "done" => StopRequested)
  /\ (pc = "dispatch" /\ ~connected /\ ~StopRequested)
       ~> (pc = "sleep" \/ StopRequested)

\* C13: RECONNECT was dispatched: Disconnected with the socket still open and no
\* transport error.
C13_Witness ==
  pc = "dispatch" /\ ~connected /\ socket = "open" /\ ~failed /\ ~StopRequested

\* C15: dispatching PING with first parameter t in the state Connected, the send
\* being accepted, puts exactly the line PONG :t on the socket; PING without
\* parameters puts none; nothing else changes.
C15_PongReply ==
  [][Dispatches("PING") =>
       LET params == Head(buffer).params
       IN  /\ (params # <<>> /\ connected /\ ~SendFails) => out' = <<"PONG", params[1]>>
           /\ params = <<>> => out' = NoLine
           /\ out' \in {NoLine, <<"PONG", ":tmi.twitch.tv">>}
           /\ ~SendFails =>
                /\ pc' = "dispatch"
                /\ UNCHANGED <<channels, announce_channel, socket, connected, running,
                               hi_sent, reconnect_delay, ping_age, joined_channel,
                               sent, greetings, joins, waits, failed>>]_vars

\* C15: the PONG for the server's PING has just been sent.
C15_Witness == pc = "dispatch" /\ connected /\ out = <<"PONG", ":tmi.twitch.tv">>

\* C16: an iteration of the read loop sends the probe only when more than 60 time
\* units passed since the last one (or the session's start), sends it then (in the
\* state Connected, the send being accepted) and resets the timer; otherwise it
\* sends nothing and keeps the timer; a read timeout sends nothing and goes on
\* with the loop.
C16_KeepaliveProbe ==
  [][/\ (pc = "ping" /\ pc' = "recv") =>
          /\ out' = Probe => ping_age > 60
          /\ (ping_age > 60 /\ connected /\ ~SendFails) => out' = Probe
          /\ ping_age > 60 => ping_age' = 0
          /\ ping_age <= 60 => (out' = NoLine /\ ping_age' = ping_age)
     /\ (pc = "recv" /\ pc' = "listen") =>
          (out' = NoLine /\ connected' = connected /\ socket' = socket)]_vars

\* C16: a probe has just been sent and the timer restarted.
C16_Witness == pc = "recv" /\ out = Probe /\ ping_age = 0 /\ connected

\* C16: exactly 60 time units after the last probe no probe is sent.
C16_WitnessAtInterval == pc = "recv" /\ out = NoLine /\ ping_age = 60 /\ connected

\* C19: once a handler has set Disconnected (no stop requested), no further line
\* of the session is dispatched: the lines still in the buffer stay there.
C19_NoDispatchAfterDisconnect ==
  [][(pc = "dispatch" /\ ~connected /\ ~StopRequested) => buffer' = buffer]_vars

\* the JOIN lines among the lines connect() sent
JoinsSent == {i \in 1..Len(sent) : sent[i][1] = "JOIN"}

\* C20: the JOIN lines a successful connect() sent are exactly one per distinct
\* lowercase room name.
C20_OneJoinPerRoom ==
  connected =>
    /\ \A i, j \in JoinsSent : sent[i] = sent[j] => i = j
    /\ {sent[i][2] : i \in JoinsSent} = Range(channels)

\* the characters read so far
Consumed == SubSeq(call, 1, Len(call) - Len(wire))

IsPrefix(s, t) == Len(s) <= Len(t) /\ s = SubSeq(t, 1, Len(s))

\* C14: however the stream A\r\nB\r\nC\r\n is cut into non-empty reads, the framer
\* hands on A, B, C in this order and nothing else, and what follows the last
\* terminator stays in the buffer; for every stream the lines handed on and the
\* buffer are those of framing the characters read so far in one piece.
C14_FramerSplitIndependent ==
  /\ call \in {ABCStream, ABCThenPartial} =>
       /\ IsPrefix(lines, <<LineA, LineB, LineC>>)
       /\ wire = <<>> =>
            /\ lines = <<LineA, LineB, LineC>>
            /\ raw = IF call = ABCStream THEN <<>> ELSE <<"D">>
  /\ Frame(Consumed, <<>>) = [buffer |-> raw, handed |-> lines]
  /\ FindCRLF(raw) = 0
  /\ \A i \in 1..Len(lines) : lines[i] # <<>>

\* C14: a read ended between \r and \n of the second line, the first was handed on.
C14_Witness ==
  call = ABCThenPartial /\ lines = <<LineA>> /\ raw = LineB \o <<"\r">>

\* C14: the whole stream was read; the unterminated rest is still in the buffer.
C14_WitnessRest ==
  call = ABCThenPartial /\ wire = <<>> /\ lines = <<LineA, LineB, LineC>> /\ raw = <<"D">>

\* the room the call just made resolves to, and the chat line for it
CallTarget == IF call'.channel # None THEN Lower(call'.channel) ELSE channels[1]
CallLine == <<"PRIVMSG", CallTarget, call'.message>>

\* C17 as stated: a call whose resolved room is not configured sends nothing and
\* changes neither the connection state nor hi_sent; every other call (whose send
\* does not raise) sends the line PRIVMSG #<room> :<text>.
C17_SendsWhenConfigured ==
  [][call' # call =>
       IF CallTarget \notin Range(channels)
         THEN out' = NoLine /\ UNCHANGED <<connected, socket, hi_sent>>
         ELSE ~(connected /\ ~connected') => out' = CallLine]_vars

\* C17 amended: the room is the argument lowercased, or else the first configured
\* room; a call whose room is not configured, or made when the state is not
\* Connected, sends nothing and changes neither the connection state nor hi_sent;
\* a call for a configured room in the state Connected sends exactly the line
\* PRIVMSG #<room> :<text>, unless the send raises, which sends nothing and sets
\* Disconnected.
C17_SendMessage ==
  [][call' # call =>
       /\ CallTarget \notin Range(channels) =>
            (out' = NoLine /\ UNCHANGED <<connected, socket, hi_sent>>)
       /\ ~connected =>
            (out' = NoLine /\ UNCHANGED <<connected, socket, hi_sent>>)
       /\ (CallTarget \in Range(channels) /\ connected /\ connected') => out' = CallLine
       /\ (connected /\ ~connected') => (out' = NoLine /\ CallTarget \in Range(channels))
       /\ hi_sent' = hi_sent]_vars

\* C17: a call naming the room in another letter case sent the line for the
\* lowercase room.
C17_Witness ==
  call.n > 0 /\ call.channel = "FOO" /\ connected /\ out = <<"PRIVMSG", "foo", "yo">>

\* C17: a call for a configured room on a bot that is not connected sent nothing.
C17_WitnessNotConnected ==
  /\ call.n > 0
  /\ call.channel = "bar"
  /\ "bar" \in Range(channels)
  /\ ~connected
  /\ ~failed
  /\ out = NoLine

\* C17: a call for a room that is not configured sent nothing.
C17_WitnessNotConfigured ==
  call.n > 0 /\ call.channel = "baz" /\ connected /\ out = NoLine /\ ~failed

\* the line '@badge=1;color=#fff :nick!user@host PRIVMSG #room :hello world'
ClaimLine ==
  <<"@", "b", "a", "d", "g", "e", "=", "1", ";",
    "c", "o", "l", "o", "r", "=", "#", "f", "f", "f", " ">>
    \o <<":", "n", "i", "c", "k", "!", "u", "s", "e", "r", "@", "h", "o", "s", "t", " ">>
    \o PRIVMSG
    \o <<" ", "#", "r", "o", "o", "m", " ", ":", "h", "e", "l", "l", "o", " ",
         "w", "o", "r", "l", "d">>

\* C18: parse_message returns a parsed record for every line and changes no field
\* of the bot; the record keeps the line as raw, its command and parameters hold
\* no space and, for a line without tags and prefix, joined by spaces give the
\* line back; the line '@badge=1;color=#fff :nick!user@host PRIVMSG #room :hello
\* world' gives tags {badge: '1', color: '#fff'}, prefix 'nick!user@host', command
\* 'PRIVMSG', params ['#room', ':hello', 'world'], and the PRIVMSG branch derives
\* sender 'nick', room '#room', text 'hello world' from it.
C18_ParseMessage ==
  /\ ret # <<>> =>
       /\ DOMAIN ret[1] = {"raw", "tags", "prefix", "command", "params"}
       /\ ret[1].raw = call
       /\ " " \notin Range(ret[1].command)
       /\ \A i \in 1..Len(ret[1].params) : " " \notin Range(ret[1].params[i])
       /\ \A k \in DOMAIN ret[1].tags : "=" \notin Range(k) /\ ";" \notin Range(k)
       /\ (~StartsWith(call, "@") /\ ~StartsWith(call, ":")) =>
            PyJoin(<<ret[1].command>> \o ret[1].params, " ") = call
       /\ call = ClaimLine =>
            /\ ret[1].tags = (<<"b", "a", "d", "g", "e">> :> <<"1">>)
                             @@ (<<"c", "o", "l", "o", "r">> :> <<"#", "f", "f", "f">>)
            /\ ret[1].prefix = <<"n", "i", "c", "k", "!", "u", "s", "e", "r", "@", "h", "o", "s", "t">>
            /\ ret[1].command = PRIVMSG
            /\ ret[1].params = << <<"#", "r", "o", "o", "m">>,
                               <<":", "h", "e", "l", "l", "o">>,
                               <<"w", "o", "r", "l", "d">> >>
  /\ (call = ClaimLine /\ logged # <<>>) =>
       logged[1] = [channel |-> <<"#", "r", "o", "o", "m">>,
                 username |-> <<"n", "i", "c", "k">>,
                 msg_content |-> <<"h", "e", "l", "l", "o", " ", "w", "o", "r", "l", "d">>]
  /\ socket = None /\ ~connected /\ hi_sent = {} /\ out = NoLine /\ ~failed

\* C18: the line of the example was parsed and handled by the PRIVMSG branch.
C18_Witness == call = ClaimLine /\ ret # <<>> /\ logged # <<>>

\* C18: a line of tags only, without any space, was parsed: find() gave -1.
C18_WitnessMalformed ==
  call = <<"@", "a", "=">> /\ ret # <<>> /\ ret[1].command = call /\ ret[1].tags = NoTags

====
